---- MODULE Spec2Model ----
(***************************************************************************)
(* Loyalty-points checkout settlement (services.py, domain_models.py,      *)
(* repositories.py).  Requests are handled by process_checkout; the        *)
(* database tables are the persisted state; every repository call is one   *)
(* atomic step of a request.                                                *)
(*                                                                         *)
(* Optional values (Python None / SQL NULL) are sequences of length <= 1:  *)
(* <<>> is None and <<v>> is the value v.  Prices are in cents, so the     *)
(* Decimal arithmetic on Numeric(10, 2) prices is exact integer arithmetic. *)
(***************************************************************************)
EXTENDS Integers, Sequences, FiniteSets, TLC

\* ------------------------------------------------------------------ bounds

\* Longest product_ids list of a request (serial server).
MaxLen == 2
\* Longest product_ids list of a request when two requests overlap.
MaxConcLen == 1
\* Last day the system clock reaches; the clock starts on day 1.
MaxDay == 2
\* Longest rule list handed to get_active_rule in the resolver harness.
MaxRules == 2

\* ---------------------------------------------------------------- optionals

None == <<>>

Some(v) == <<v>>

IsNone(o) == o = <<>>

Val(o) == o[1]

\* ------------------------------------------------------------ the database

Days == 1..MaxDay

\* The two requests the server handles.
Requests == {1, 2}

\* Customers table: ids of the existing rows.
CustomersTable == {1, 2}

\* Customer ids a request may carry: 1 has an account, 2 has none, 3 is unknown.
CustomerIds == {1, 2, 3}

\* LoyaltyAccounts table: the rows, with the balance they start with.
LoyaltyAccountsTable == {[id |-> 1, customer_id |-> 1, points |-> 100]}

AccountIds == {a.id : a \in LoyaltyAccountsTable}

\* Categories table: ids of the existing rows.
CategoriesTable == {1, 2, 3}

\* Products table: price in cents (Numeric(10, 2)) and category_id, both nullable.
\*   1 Laptop 1200.00 in category 1      2 Book 15.99 in category 2
\*   3 Sticker 0.25 in category 1        4 Gift card 10.00 in category 3 (no rules)
\*   5 Sample 5.00 with category_id NULL
\*   6 Relic 5.00 with a category_id no Categories row has
ProductsTable ==
    (1 :> [price |-> Some(120000), category_id |-> Some(1)]) @@
    (2 :> [price |-> Some(1599), category_id |-> Some(2)]) @@
    (3 :> [price |-> Some(25), category_id |-> Some(1)]) @@
    (4 :> [price |-> Some(1000), category_id |-> Some(3)]) @@
    (5 :> [price |-> Some(500), category_id |-> None]) @@
    (6 :> [price |-> Some(500), category_id |-> Some(7)])

\* Product ids a request may carry: 9 is no row of the Products table.
ProductIds == {1, 2, 3, 4, 5, 6, 9}

\* PointEarningRules table in insertion (rowid) order.
\*   category 1: one rule, 2 points per dollar, valid up to and including day 1
\*   category 2: 1 point per dollar on day 1 only, then 3 points per dollar from day 2
PointEarningRulesTable ==
    << [id |-> 1, category_id |-> 1, points_per_dollar |-> Some(2),
        start_date |-> None, end_date |-> Some(1)],
       [id |-> 2, category_id |-> 2, points_per_dollar |-> Some(1),
        start_date |-> Some(1), end_date |-> Some(1)],
       [id |-> 3, category_id |-> 2, points_per_dollar |-> Some(3),
        start_date |-> Some(2), end_date |-> None] >>

\* --------------------------------------------------------- domain_models.py

\* A rule test whose end date is exclusive.
RuleIsActive_end_exclusive(rule, date) ==
    /\ (IsNone(rule.start_date) \/ Val(rule.start_date) <= date)
    /\ (IsNone(rule.end_date) \/ date < Val(rule.end_date))

\* The test of one rule in Category.get_active_rule: both bounds inclusive,
\* an unset bound is unbounded.
RuleIsActive(rule, date) ==
    /\ (IsNone(rule.start_date) \/ Val(rule.start_date) <= date)
    /\ (IsNone(rule.end_date) \/ date <= Val(rule.end_date))

RECURSIVE get_active_rule(_, _)
\* Category.get_active_rule: the first rule of the list that is active on date.
get_active_rule(point_earning_rules, date) ==
    IF point_earning_rules = <<>> THEN None
    ELSE IF RuleIsActive(Head(point_earning_rules), date)
         THEN Some(Head(point_earning_rules))
         ELSE get_active_rule(Tail(point_earning_rules), date)

\* Python truthiness of an optional number: None and 0 are false.
Truthy(o) == ~IsNone(o) /\ Val(o) # 0

\* A conversion that rounds to the nearest integer instead of cutting off.
DecimalToInt_rounded(hundredths) ==
    IF hundredths >= 0 THEN (hundredths + 50) \div 100
    ELSE -((50 - hundredths) \div 100)

\* int(Decimal): cents * multiplier / 100 with the fraction cut off (toward zero).
DecimalToInt(hundredths) ==
    IF hundredths >= 0 THEN hundredths \div 100 ELSE -((-hundredths) \div 100)

\* PointCalculator.calculate_points.
calculate_points(product, transaction_date) ==
    IF ~IsNone(product.category)
    THEN LET rule == get_active_rule(Val(product.category).point_earning_rules,
                                     transaction_date)
         IN IF ~IsNone(rule) /\ Truthy(Val(rule).points_per_dollar)
                /\ Truthy(product.price)
            THEN DecimalToInt(Val(product.price) * Val(Val(rule).points_per_dollar))
            ELSE 0
    ELSE 0

\* add_points that adds the points twice.
add_points_twice(account, n) == [account EXCEPT !.points = @ + n + n]

\* LoyaltyAccount.add_points.
add_points(account, n) == [account EXCEPT !.points = @ + n]

\* ----------------------------------------------------------- repositories.py

\* CustomerRepository.get_by_id.
CustomerRepository_get_by_id(cid) ==
    IF cid \in CustomersTable THEN Some([id |-> cid]) ELSE None

\* A lookup that forgets the customer_id filter and takes the first account.
get_by_customer_id_unfiltered(cid, stored) ==
    LET a == CHOOSE r \in LoyaltyAccountsTable : TRUE
    IN Some([id |-> a.id, points |-> stored[a.id]])

\* LoyaltyAccountRepository.get_by_customer_id: the row's balance as stored now.
LoyaltyAccountRepository_get_by_customer_id(cid, stored) ==
    LET rows == {a \in LoyaltyAccountsTable : a.customer_id = cid}
    IN IF rows = {} THEN None
       ELSE LET a == CHOOSE r \in rows : TRUE
            IN Some([id |-> a.id, points |-> stored[a.id]])

\* An update that never writes the balance.
update_without_write(account, stored) == stored

\* LoyaltyAccountRepository.update: overwrite the stored balance with the
\* in-memory one (nothing is written when the row does not exist).
LoyaltyAccountRepository_update(account, stored) ==
    IF account.id \in DOMAIN stored
    THEN [stored EXCEPT ![account.id] = account.points]
    ELSE stored

\* The ORM relationship Products.category: the Categories row category_id names.
ProductCategoryRow(row) ==
    IF ~IsNone(row.category_id) /\ Val(row.category_id) \in CategoriesTable
    THEN Some(Val(row.category_id)) ELSE None

\* ProductRepository.get_by_id.  It reads product_model.category.name, which
\* raises AttributeError when the relationship is None.
ProductRepository_get_by_id(pid) ==
    IF pid \notin DOMAIN ProductsTable
    THEN [raised |-> FALSE, value |-> None]
    ELSE LET row == ProductsTable[pid]
         IN IF IsNone(ProductCategoryRow(row))
            THEN [raised |-> TRUE, value |-> None]
            ELSE [raised |-> FALSE,
                  value |-> Some([id |-> pid, price |-> row.price,
                                  category_id |-> row.category_id,
                                  category |-> Some([id |-> row.category_id,
                                                     point_earning_rules |-> <<>>])])]

\* ORDER BY start_date DESC: a sorts no later than b (NULL sorts last).
StartDateDescLeq(a, b) ==
    IsNone(b.start_date) \/ (~IsNone(a.start_date) /\ Val(a.start_date) >= Val(b.start_date))

\* CategoryRepository.get_by_id: every Category the query may build.  Only the
\* first rule by start_date DESC is attached; rows with equal start_date come in
\* an order the database chooses.
CategoryRepository_get_by_id(category_id) ==
    IF IsNone(category_id) \/ Val(category_id) \notin CategoriesTable
    THEN {None}
    ELSE LET rows == {i \in DOMAIN PointEarningRulesTable :
                        PointEarningRulesTable[i].category_id = Val(category_id)}
             first == {i \in rows : \A j \in rows :
                          StartDateDescLeq(PointEarningRulesTable[i],
                                           PointEarningRulesTable[j])}
         IN IF rows = {}
            THEN {Some([id |-> category_id, point_earning_rules |-> <<>>])}
            ELSE {Some([id |-> category_id,
                        point_earning_rules |-> <<PointEarningRulesTable[i]>>]) :
                    i \in first}

\* A create that skips a row the table already holds (same account, product, date).
create_deduplicated(table, account, product, n, date) ==
    LET row == [loyalty_account_id |-> account.id, product_id |-> product.id,
                points_earned |-> n, transaction_date |-> date]
    IN IF \E k \in 1..Len(table) : table[k] = row THEN table ELSE Append(table, row)

\* A create that merges: a stored row of the same account and product is
\* overwritten by the new one.
create_merged(table, account, product, n, date) ==
    LET row == [loyalty_account_id |-> account.id, product_id |-> product.id,
                points_earned |-> n, transaction_date |-> date]
        same == {k \in 1..Len(table) :
                    /\ table[k].loyalty_account_id = account.id
                    /\ table[k].product_id = product.id}
    IN IF same = {} THEN Append(table, row)
       ELSE [k \in 1..Len(table) |-> IF k \in same THEN row ELSE table[k]]

\* PointTransactionRepository.create: the row appended to PointTransactions.
PointTransactionRepository_create(table, account, product, n, date) ==
    Append(table, [loyalty_account_id |-> account.id, product_id |-> product.id,
                   points_earned |-> n, transaction_date |-> date])

\* ---------------------------------------------------------------- the state

VARIABLES
    points,                       \* LoyaltyAccounts.points by account id
    transactions,                 \* PointTransactions table, in insertion order
    today,                        \* date.today()
    pc,                           \* where each request is
    customer_id,                  \* process_checkout's argument
    product_ids,                  \* process_checkout's argument
    loyalty_account,              \* the in-memory LoyaltyAccount of the request
    idx,                          \* position of the for loop in product_ids
    product,                      \* the loop's product, category attached
    points_earned,                \* the loop's points_earned
    total_points_earned,
    invalid_products,
    products_missing_category,
    point_earning_rules_missing,
    response,                     \* what process_checkout returned (or raised)
    calc_dates,                   \* date.today() in each loop iteration that did not
                                  \* raise (the argument of calculate_points)
    created,                      \* rows of PointTransactions the request wrote
    updates,                      \* LoyaltyAccountRepository.update calls returned
    probe                         \* argument and result of a direct domain call

dbVars == <<points, transactions>>

loopVars == <<idx, product, points_earned, total_points_earned, invalid_products,
              products_missing_category, point_earning_rules_missing, calc_dates,
              created>>

reqVars == <<pc, customer_id, product_ids, loyalty_account, response, updates>>

vars == <<points, transactions, today, pc, customer_id, product_ids,
          loyalty_account, idx, product, points_earned, total_points_earned,
          invalid_products, products_missing_category,
          point_earning_rules_missing, response, calc_dates, created, updates,
          probe>>

NoResponse == [status |-> 0, error |-> ""]

NoProduct == [id |-> 0, price |-> None, category_id |-> None, category |-> None]

NoProbe == [op |-> "none"]

\* product_ids lists of length 0..n.
ProductIdLists(n) == UNION {[1..k -> ProductIds] : k \in 0..n}

InitDb ==
    /\ points = [a \in AccountIds |->
                   (CHOOSE r \in LoyaltyAccountsTable : r.id = a).points]
    /\ transactions = <<>>
    /\ today = 1

InitRequests ==
    /\ pc = [p \in Requests |-> "idle"]
    /\ customer_id = [p \in Requests |-> 0]
    /\ product_ids = [p \in Requests |-> <<>>]
    /\ loyalty_account = [p \in Requests |-> None]
    /\ idx = [p \in Requests |-> 0]
    /\ product = [p \in Requests |-> NoProduct]
    /\ points_earned = [p \in Requests |-> 0]
    /\ total_points_earned = [p \in Requests |-> 0]
    /\ invalid_products = [p \in Requests |-> <<>>]
    /\ products_missing_category = [p \in Requests |-> <<>>]
    /\ point_earning_rules_missing = [p \in Requests |-> <<>>]
    /\ response = [p \in Requests |-> NoResponse]
    /\ calc_dates = [p \in Requests |-> <<>>]
    /\ created = [p \in Requests |-> <<>>]
    /\ updates = [p \in Requests |-> 0]

Init == InitDb /\ InitRequests /\ probe = NoProbe

\* ----------------------------------------------------------------- services.py

Running(p) == pc[p] \in {"get_account", "products", "create"}


\* process_checkout, lines 27-31: the request arrives and the customer is looked up.
process_checkout(p, cid, pids) ==
    /\ pc[p] = "idle"
    /\ customer_id' = [customer_id EXCEPT ![p] = cid]
    /\ product_ids' = [product_ids EXCEPT ![p] = pids]
    /\ IF IsNone(CustomerRepository_get_by_id(cid))
       THEN /\ response' = [response EXCEPT
                              ![p] = [status |-> 404, error |-> "Customer not found"]]
            /\ pc' = [pc EXCEPT ![p] = "done"]
       ELSE /\ pc' = [pc EXCEPT ![p] = "get_account"]
            /\ UNCHANGED response
    /\ UNCHANGED <<dbVars, today, loyalty_account, updates, loopVars, probe>>

\* process_checkout, lines 33-36, and the locals _process_products starts with.
get_account(p) ==
    /\ pc[p] = "get_account"
    /\ LET account == LoyaltyAccountRepository_get_by_customer_id(customer_id[p], points)
       IN IF IsNone(account)
          THEN /\ response' = [response EXCEPT
                      ![p] = [status |-> 404, error |-> "Loyalty account not found"]]
               /\ pc' = [pc EXCEPT ![p] = "done"]
               /\ UNCHANGED <<loyalty_account, idx>>
          ELSE /\ loyalty_account' = [loyalty_account EXCEPT ![p] = account]
               /\ idx' = [idx EXCEPT ![p] = 1]
               /\ pc' = [pc EXCEPT ![p] = "products"]
               /\ UNCHANGED response
    /\ UNCHANGED <<dbVars, today, customer_id, product_ids, updates, product,
                   points_earned, total_points_earned, invalid_products,
                   products_missing_category, point_earning_rules_missing,
                   calc_dates, created, probe>>

\* The loop body without the test `if points_earned == 0`.
classify_product_no_zero_test(p, found, category) ==
    LET product_id == product_ids[p][idx[p]]
        with_category == [found EXCEPT !.category = category]
        n == calculate_points(with_category, today)
    IN IF IsNone(category)
       THEN /\ products_missing_category' =
                   [products_missing_category EXCEPT ![p] = Append(@, product_id)]
            /\ idx' = [idx EXCEPT ![p] = @ + 1]
            /\ UNCHANGED <<pc, product, points_earned, point_earning_rules_missing>>
       ELSE /\ product' = [product EXCEPT ![p] = with_category]
            /\ points_earned' = [points_earned EXCEPT ![p] = n]
            /\ pc' = [pc EXCEPT ![p] = "create"]
            /\ UNCHANGED <<idx, point_earning_rules_missing,
                           products_missing_category>>

\* The loop body without the `continue` after recording a zero-point product.
classify_product_no_continue(p, found, category) ==
    LET product_id == product_ids[p][idx[p]]
        with_category == [found EXCEPT !.category = category]
        n == calculate_points(with_category, today)
    IN IF IsNone(category)
       THEN /\ products_missing_category' =
                   [products_missing_category EXCEPT ![p] = Append(@, product_id)]
            /\ idx' = [idx EXCEPT ![p] = @ + 1]
            /\ UNCHANGED <<pc, product, points_earned, point_earning_rules_missing>>
       ELSE /\ product' = [product EXCEPT ![p] = with_category]
            /\ points_earned' = [points_earned EXCEPT ![p] = n]
            /\ point_earning_rules_missing' =
                   IF n = 0
                   THEN [point_earning_rules_missing EXCEPT
                           ![p] = Append(@, product_id)]
                   ELSE point_earning_rules_missing
            /\ pc' = [pc EXCEPT ![p] = "create"]
            /\ UNCHANGED <<idx, products_missing_category>>

\* The loop body of _process_products up to the test of points_earned (lines
\* 61-78) for a product the repository returned, with category the Category
\* that CategoryRepository.get_by_id built.
classify_product(p, found, category) ==
    LET product_id == product_ids[p][idx[p]]
        with_category == [found EXCEPT !.category = category]
        n == calculate_points(with_category, today)
    IN IF IsNone(category)
       THEN /\ products_missing_category' =
                   [products_missing_category EXCEPT ![p] = Append(@, product_id)]
            /\ idx' = [idx EXCEPT ![p] = @ + 1]
            /\ UNCHANGED <<pc, product, points_earned, point_earning_rules_missing>>
       ELSE /\ product' = [product EXCEPT ![p] = with_category]
            /\ points_earned' = [points_earned EXCEPT ![p] = n]
            /\ IF n = 0
               THEN /\ point_earning_rules_missing' =
                           [point_earning_rules_missing EXCEPT
                              ![p] = Append(@, product_id)]
                    /\ idx' = [idx EXCEPT ![p] = @ + 1]
                    /\ UNCHANGED pc
               ELSE /\ pc' = [pc EXCEPT ![p] = "create"]
                    /\ UNCHANGED <<idx, point_earning_rules_missing>>
            /\ UNCHANGED products_missing_category

\* One iteration of the loop of _process_products, lines 61-78.
process_product(p) ==
    /\ pc[p] = "products"
    /\ idx[p] <= Len(product_ids[p])
    /\ LET product_id == product_ids[p][idx[p]]
           got == ProductRepository_get_by_id(product_id)
       IN IF got.raised
          THEN /\ pc' = [pc EXCEPT ![p] = "failed"]
               /\ response' = [response EXCEPT
                                 ![p] = [status |-> 500, error |-> "AttributeError"]]
               /\ UNCHANGED <<idx, product, points_earned, invalid_products,
                              products_missing_category,
                              point_earning_rules_missing, calc_dates>>
          ELSE /\ calc_dates' = [calc_dates EXCEPT ![p] = Append(@, today)]
               /\ IF IsNone(got.value)
                  THEN /\ invalid_products' = [invalid_products EXCEPT
                                                 ![p] = Append(@, product_id)]
                       /\ idx' = [idx EXCEPT ![p] = @ + 1]
                       /\ UNCHANGED <<pc, response, product, points_earned,
                                      products_missing_category,
                                      point_earning_rules_missing>>
                  ELSE /\ \E category \in
                              CategoryRepository_get_by_id(Val(got.value).category_id) :
                              classify_product(p, Val(got.value), category)
                       /\ UNCHANGED <<response, invalid_products>>
    /\ UNCHANGED <<dbVars, today, customer_id, product_ids, loyalty_account,
                   updates, total_points_earned, created, probe>>

\* A loop body that writes the balance after every transaction.
create_transaction_and_update(p) ==
    /\ pc[p] = "create"
    /\ transactions' = PointTransactionRepository_create(
                           transactions, Val(loyalty_account[p]), product[p],
                           points_earned[p], today)
    /\ created' = [created EXCEPT ![p] = Append(@, Len(transactions) + 1)]
    /\ loyalty_account' = [loyalty_account EXCEPT
                             ![p] = Some(add_points(Val(@), points_earned[p]))]
    /\ points' = LoyaltyAccountRepository_update(Val(loyalty_account'[p]), points)
    /\ total_points_earned' = [total_points_earned EXCEPT ![p] = @ + points_earned[p]]
    /\ idx' = [idx EXCEPT ![p] = @ + 1]
    /\ pc' = [pc EXCEPT ![p] = "products"]
    /\ UNCHANGED <<today, customer_id, product_ids, response, updates,
                   product, points_earned, invalid_products,
                   products_missing_category, point_earning_rules_missing,
                   calc_dates, probe>>

\* _create_transaction and the rest of the loop body, lines 80-82 and 87-97:
\* the clock is read again for the transaction's date.
create_transaction(p) ==
    /\ pc[p] = "create"
    /\ transactions' = PointTransactionRepository_create(
                           transactions, Val(loyalty_account[p]), product[p],
                           points_earned[p], today)
    /\ created' = [created EXCEPT ![p] = Append(@, Len(transactions) + 1)]
    /\ loyalty_account' = [loyalty_account EXCEPT
                             ![p] = Some(add_points(Val(@), points_earned[p]))]
    /\ total_points_earned' = [total_points_earned EXCEPT ![p] = @ + points_earned[p]]
    /\ idx' = [idx EXCEPT ![p] = @ + 1]
    /\ pc' = [pc EXCEPT ![p] = "products"]
    /\ UNCHANGED <<points, today, customer_id, product_ids, response, updates,
                   product, points_earned, invalid_products,
                   products_missing_category, point_earning_rules_missing,
                   calc_dates, probe>>

\* process_checkout, lines 38-51: the loop is over, the balance is written once
\* and the response is returned.
update_account(p) ==
    /\ pc[p] = "products"
    /\ idx[p] > Len(product_ids[p])
    /\ points' = LoyaltyAccountRepository_update(Val(loyalty_account[p]), points)
    /\ updates' = [updates EXCEPT ![p] = @ + 1]
    /\ response' = [response EXCEPT ![p] = [status |-> 200, error |-> ""]]
    /\ pc' = [pc EXCEPT ![p] = "done"]
    /\ UNCHANGED <<transactions, today, customer_id, product_ids, loyalty_account,
                   loopVars, probe>>

\* The repository call the request is about to make raises (the database is
\* unavailable, a commit fails): nothing is written and the exception leaves
\* process_checkout.
persistence_failure(p) ==
    /\ Running(p)
    /\ pc' = [pc EXCEPT ![p] = "failed"]
    /\ response' = [response EXCEPT
                      ![p] = [status |-> 500, error |-> "PersistenceFailure"]]
    /\ UNCHANGED <<dbVars, today, customer_id, product_ids, loyalty_account,
                   updates, loopVars, probe>>

\* Midnight passes.
tick ==
    /\ today < MaxDay
    /\ today' = today + 1
    /\ UNCHANGED <<dbVars, reqVars, loopVars, probe>>

\* A request's steps after its arrival.
step(p) ==
    \/ get_account(p)
    \/ process_product(p)
    \/ create_transaction(p)
    \/ update_account(p)
    \/ persistence_failure(p)

\* A server that handles one checkout request at a time: a client submits a
\* checkout and, once it has been answered, may submit the same checkout again.
Next ==
    \/ \E cid \in CustomerIds, pids \in ProductIdLists(MaxLen) :
          process_checkout(1, cid, pids)
    \/ /\ pc[1] \in {"done", "failed"}
       /\ process_checkout(2, customer_id[1], product_ids[1])
    \/ \E p \in Requests : step(p)
    \/ tick

Spec == Init /\ [][Next]_vars

\* Product ids of the requests of the threaded server.
ConcurrentProductIds == {1, 2, 9}

\* A threaded server: two clients' requests may overlap in any way.
NextConcurrent ==
    \/ \E p \in Requests, cid \in CustomerIds :
          \E pids \in UNION {[1..k -> ConcurrentProductIds] : k \in 0..MaxConcLen} :
             process_checkout(p, cid, pids)
    \/ \E p \in Requests : step(p)
    \/ tick

SpecConcurrent == Init /\ [][NextConcurrent]_vars

\* ------------------------------------------------------- what the claims use

Answered(p) == pc[p] \in {"done", "failed"}

Succeeded(p) == pc[p] = "done" /\ response[p].status = 200

\* The balance every account starts with.
InitialPoints(a) == (CHOOSE r \in LoyaltyAccountsTable : r.id = a).points

HasAccount(cid) == \E a \in LoyaltyAccountsTable : a.customer_id = cid

AccountOf(cid) == (CHOOSE a \in LoyaltyAccountsTable : a.customer_id = cid).id

RECURSIVE SubSeqAt(_, _, _)
\* The elements of s at the positions in K that are >= i, in the order of s.
SubSeqAt(s, K, i) ==
    IF i > Len(s) THEN <<>>
    ELSE (IF i \in K THEN <<s[i]>> ELSE <<>>) \o SubSeqAt(s, K, i + 1)

RECURSIVE SumPointsOf(_)
\* Sum of points_earned over the PointTransactions rows numbered in rows.
SumPointsOf(rows) ==
    IF rows = <<>> THEN 0
    ELSE transactions[Head(rows)].points_earned + SumPointsOf(Tail(rows))

\* A request has not touched anything: no product processed, nothing created,
\* no balance update issued.
NothingDone(p) ==
    /\ idx[p] = 0
    /\ calc_dates[p] = <<>>
    /\ created[p] = <<>>
    /\ updates[p] = 0
    /\ total_points_earned[p] = 0
    /\ invalid_products[p] = <<>>
    /\ products_missing_category[p] = <<>>
    /\ point_earning_rules_missing[p] = <<>>
    /\ IsNone(loyalty_account[p])

\* ------------------------------------------------------------------------ C1

\* C1: a request whose customer id names no customer is answered 404
\* "Customer not found"; one whose customer has no loyalty account is answered
\* 404 "Loyalty account not found" (unless the account lookup itself fails);
\* a request answered 404 has processed no product, created no transaction and
\* issued no balance update, and while only such requests were answered the
\* stored balances and the transaction table are as they started.
C1_NotFoundNoMutation ==
    /\ \A p \in Requests :
          /\ (pc[p] # "idle" /\ customer_id[p] \notin CustomersTable)
                => /\ pc[p] = "done"
                   /\ response[p] = [status |-> 404, error |-> "Customer not found"]
          /\ (pc[p] = "done" /\ customer_id[p] \in CustomersTable
                 /\ ~HasAccount(customer_id[p]))
                => response[p] = [status |-> 404, error |-> "Loyalty account not found"]
          /\ response[p].status = 404
                => /\ NothingDone(p)
                   /\ (customer_id[p] \notin CustomersTable \/ ~HasAccount(customer_id[p]))
    /\ (\A p \in Requests : pc[p] = "idle" \/ response[p].status = 404)
          => /\ transactions = <<>>
             /\ \A a \in AccountIds : points[a] = InitialPoints(a)

\* Both not-found outcomes have happened: the customer without an account was
\* answered, twice.
C1_Witness ==
    /\ response[1] = [status |-> 404, error |-> "Loyalty account not found"]
    /\ response[2].status = 404
    /\ product_ids[1] # <<>>

\* ------------------------------------------------------------------------ C2

\* C2: every answered request whose customer and loyalty account exist (and
\* whose repository calls did not fail) issued the balance update exactly once,
\* and an update is issued only after every product id has been processed.
C2_UpdateExactlyOnce ==
    \A p \in Requests :
       /\ updates[p] <= 1
       /\ updates[p] = 1 => idx[p] = Len(product_ids[p]) + 1
       /\ (Answered(p) /\ customer_id[p] \in CustomersTable /\ HasAccount(customer_id[p])
              /\ response[p].error # "PersistenceFailure")
             => updates[p] = 1

\* ------------------------------------------------------------------------ C3

UnknownProduct(x) == x \notin DOMAIN ProductsTable

\* The product exists and its category_id is unset or names no category.
CategoryUnresolvable(x) ==
    /\ x \in DOMAIN ProductsTable
    /\ \/ IsNone(ProductsTable[x].category_id)
       \/ Val(ProductsTable[x].category_id) \notin CategoriesTable

\* The product exists, its category resolves, and the points computed on day d are 0.
ZeroPointsOn(x, d) ==
    /\ ~UnknownProduct(x)
    /\ ~CategoryUnresolvable(x)
    /\ \E c \in CategoryRepository_get_by_id(ProductsTable[x].category_id) :
          calculate_points([price |-> ProductsTable[x].price, category |-> c], d) = 0

\* Positions of the input of request p by outcome, in the priority order.
InvalidAt(p) ==
    {i \in 1..Len(product_ids[p]) : UnknownProduct(product_ids[p][i])}

MissingCategoryAt(p) ==
    {i \in 1..Len(product_ids[p]) : CategoryUnresolvable(product_ids[p][i])}

RulesMissingAt(p) ==
    {i \in 1..Len(product_ids[p]) :
        i <= Len(calc_dates[p]) /\ ZeroPointsOn(product_ids[p][i], calc_dates[p][i])}

EarningAt(p) ==
    (1..Len(product_ids[p])) \ (InvalidAt(p) \cup MissingCategoryAt(p) \cup RulesMissingAt(p))

\* C3: in a request answered 200 every position of the input has exactly one
\* outcome: unknown product -> invalid_products; else category unresolvable ->
\* products_missing_category; else zero points on the day it was processed ->
\* point_earning_rules_missing; else it earned a transaction and is in no list.
\* Each list is the input restricted to its positions, in input order.
C3_Classification ==
    \A p \in Requests :
       Succeeded(p) =>
          /\ Len(calc_dates[p]) = Len(product_ids[p])
          /\ invalid_products[p] = SubSeqAt(product_ids[p], InvalidAt(p), 1)
          /\ products_missing_category[p] =
                SubSeqAt(product_ids[p], MissingCategoryAt(p), 1)
          /\ point_earning_rules_missing[p] =
                SubSeqAt(product_ids[p], RulesMissingAt(p), 1)
          /\ [k \in 1..Len(created[p]) |-> transactions[created[p][k]].product_id] =
                SubSeqAt(product_ids[p], EarningAt(p), 1)
          /\ Len(invalid_products[p]) + Len(products_missing_category[p])
                + Len(point_earning_rules_missing[p]) + Len(created[p])
                = Len(product_ids[p])

\* An unknown id and a zero-point product classified in one successful request.
C3_Witness ==
    \E p \in Requests :
       /\ Succeeded(p)
       /\ product_ids[p] = <<9, 3>>
       /\ invalid_products[p] = <<9>>
       /\ point_earning_rules_missing[p] = <<3>>

\* ------------------------------------------------------------------------ C4

\* C4: a product id that names no product, or a product whose category is
\* unset or missing, never makes the request fail (only a failing repository
\* call does), and in a request answered 200 the products without a category
\* are exactly the entries of products_missing_category.
C4_BadProductNeverAborts ==
    \A p \in Requests :
       /\ response[p].status = 500 => response[p].error = "PersistenceFailure"
       /\ Succeeded(p) =>
             products_missing_category[p] =
                SubSeqAt(product_ids[p], MissingCategoryAt(p), 1)

\* ------------------------------------------------------------------------ C5

\* The points request p added to account a, once it has been answered 200.
Settled(p, a) ==
    IF Succeeded(p) /\ HasAccount(customer_id[p]) /\ AccountOf(customer_id[p]) = a
    THEN total_points_earned[p] ELSE 0

\* C5: with requests handled one at a time, total_points_earned of a request
\* answered 200 is the sum of points_earned over the transactions it created,
\* and every stored balance is the initial balance plus the totals of the
\* requests answered 200 so far.
C5_BalanceIsSumOfTransactions ==
    /\ \A p \in Requests :
          Succeeded(p) =>
             /\ total_points_earned[p] = SumPointsOf(created[p])
             /\ \A k \in 1..Len(created[p]) :
                   transactions[created[p][k]].loyalty_account_id =
                      AccountOf(customer_id[p])
    /\ \A a \in AccountIds :
          points[a] = InitialPoints(a) + Settled(1, a) + Settled(2, a)

\* A request that earned 2400 on day 1 and 47 on day 2 raised the balance by 2447.
C5_Witness ==
    /\ Succeeded(1)
    /\ pc[2] = "idle"
    /\ total_points_earned[1] = 2447
    /\ Len(created[1]) = 2
    /\ points[1] = 2547

\* ------------------------------------------------------------------------ C6

\* The balance request p read when it loaded its account.
BalanceRead(p) == Val(loyalty_account[p]).points - total_points_earned[p]

\* Every transaction p and q created is stored, with the points they earned.
AllTransactionsStored(p, q) ==
    /\ Len(transactions) = Len(created[p]) + Len(created[q])
    /\ total_points_earned[p] = SumPointsOf(created[p])
    /\ total_points_earned[q] = SumPointsOf(created[q])

\* C6: when two requests for the same account read the same balance and are
\* both answered 200, the stored balance is that balance plus the total of one
\* of them only (the one that wrote last), although the transactions of both
\* are stored; so when both earned points the stored balance is smaller than
\* the initial balance plus both totals.
C6_LostUpdate ==
    \A p, q \in Requests :
       (/\ p # q
        /\ Succeeded(p) /\ Succeeded(q)
        /\ customer_id[p] = customer_id[q]
        /\ BalanceRead(p) = BalanceRead(q))
       => LET a == AccountOf(customer_id[p])
          IN /\ points[a] \in {BalanceRead(p) + total_points_earned[p],
                               BalanceRead(q) + total_points_earned[q]}
             /\ AllTransactionsStored(p, q)
             /\ (total_points_earned[p] > 0 /\ total_points_earned[q] > 0)
                   => points[a] < InitialPoints(a) + total_points_earned[p]
                                     + total_points_earned[q]

\* Both requests read 100, earned 2400 and 47, and the stored balance is 147.
C6_Witness ==
    /\ Succeeded(1) /\ Succeeded(2)
    /\ BalanceRead(1) = 100 /\ BalanceRead(2) = 100
    /\ total_points_earned[1] = 2400
    /\ total_points_earned[2] = 47
    /\ Len(transactions) = 2
    /\ points[1] = 147

\* ------------------------------------------------------------------------ C7

\* The transactions request p created are those of the point-earning positions
\* among the first n positions of its input.
CreatedForFirst(p, n) ==
    [k \in 1..Len(created[p]) |-> transactions[created[p][k]].product_id] =
       SubSeqAt(SubSeq(product_ids[p], 1, n),
                {i \in EarningAt(p) : i <= n /\ i <= Len(calc_dates[p])}, 1)

\* C7 as stated: a request that failed on a repository call left no transaction
\* and no balance change behind.
C7_FailsAtomically ==
    \A p \in Requests :
       (pc[p] = "failed" /\ response[p].error = "PersistenceFailure")
          => created[p] = <<>> /\ updates[p] = 0

\* C7 amended: a request answered 200 processed every product id and wrote the
\* balance once; a failed request wrote no balance (the stored balances are the
\* initial ones plus the totals of the requests answered 200), but the
\* transactions it created before failing stay stored, one for each
\* point-earning position it had completed.
C7_FailureKeepsBalanceOnly ==
    /\ \A p \in Requests :
          /\ Succeeded(p) =>
                /\ idx[p] = Len(product_ids[p]) + 1
                /\ updates[p] = 1
                /\ CreatedForFirst(p, Len(product_ids[p]))
          /\ pc[p] = "failed" =>
                /\ updates[p] = 0
                /\ \A k \in 1..Len(created[p]) : created[p][k] <= Len(transactions)
                /\ idx[p] > 0 => CreatedForFirst(p, idx[p] - 1)
    /\ \A a \in AccountIds :
          points[a] = InitialPoints(a) + Settled(1, a) + Settled(2, a)
    /\ Len(transactions) = Len(created[1]) + Len(created[2])

\* A request failed on a repository call after it had stored a transaction.
C7_Witness ==
    /\ pc[1] = "failed"
    /\ response[1].error = "PersistenceFailure"
    /\ Len(created[1]) = 1
    /\ Len(transactions) = 1
    /\ transactions[1].points_earned = 2400
    /\ points[1] = 100

\* ------------------------------------------------------------------------ C8

\* Every loop iteration of both requests ran on the same day.
SameDay ==
    \E d \in Days :
       \A p \in Requests : \A i \in 1..Len(calc_dates[p]) : calc_dates[p][i] = d

\* C8: when the same checkout (same customer, same product ids) is answered
\* 200 twice in sequence on one day, both answers carry the same
\* total_points_earned, the balance has grown by twice that total, and the
\* second request stored its own transaction for every transaction of the first.
C8_NotIdempotent ==
    (/\ Succeeded(1) /\ Succeeded(2)
     /\ customer_id[1] = customer_id[2]
     /\ product_ids[1] = product_ids[2]
     /\ SameDay)
    => /\ total_points_earned[2] = total_points_earned[1]
       /\ points[AccountOf(customer_id[1])] =
             InitialPoints(AccountOf(customer_id[1])) + 2 * total_points_earned[1]
       /\ Len(created[2]) = Len(created[1])
       /\ Len(transactions) = 2 * Len(created[1])
       /\ \A k \in 1..Len(created[1]) :
             /\ created[2][k] = Len(created[1]) + created[1][k]
             /\ transactions[created[2][k]].product_id =
                   transactions[created[1][k]].product_id
             /\ transactions[created[2][k]].points_earned =
                   transactions[created[1][k]].points_earned
       /\ point_earning_rules_missing[2] = point_earning_rules_missing[1]
       /\ invalid_products[2] = invalid_products[1]

\* The laptop was checked out twice on day 1: 2400 points each time, two rows.
C8_Witness ==
    /\ Succeeded(1) /\ Succeeded(2)
    /\ product_ids[2] = <<1>>
    /\ total_points_earned[1] = 2400
    /\ total_points_earned[2] = 2400
    /\ Len(transactions) = 2
    /\ points[1] = 4900

\* ------------------------------------------- direct calls of domain_models.py

OptionalDays == {None} \cup {Some(d) : d \in Days}

\* Rule lists of length 0..MaxRules whose rule i has id i, with the given
\* multipliers and validity windows.
RuleLists(multipliers, starts, ends) ==
    UNION {{[i \in 1..k |-> [id |-> i, category_id |-> 1,
                             points_per_dollar |-> f[i][1],
                             start_date |-> f[i][2], end_date |-> f[i][3]]] :
               f \in [1..k -> multipliers \X starts \X ends]} : k \in 0..MaxRules}

\* A category's rule list and a date, before Category.get_active_rule is called.
InitResolver ==
    /\ InitDb /\ InitRequests
    /\ probe \in {[op |-> "args", point_earning_rules |-> rs, before |-> rs,
                   date |-> d, price |-> None, has_category |-> TRUE,
                   rule |-> None, n |-> 0] :
                     rs \in RuleLists({Some(1)}, OptionalDays, OptionalDays),
                     d \in Days}

\* category.get_active_rule(date) is called and returns.
call_get_active_rule ==
    /\ probe.op = "args"
    /\ probe' = [probe EXCEPT !.op = "returned",
                              !.rule = get_active_rule(probe.point_earning_rules,
                                                       probe.date)]
    /\ UNCHANGED <<dbVars, today, reqVars, loopVars>>

NextResolver == call_get_active_rule

SpecResolver == InitResolver /\ [][NextResolver]_vars

\* Multipliers a rule may hold: unset, zero, positive, negative.
ProbeMultipliers == {None, Some(0), Some(1), Some(3), Some(-1)}

\* Prices a product may hold, in cents: unset, 0.00, 0.25, 15.99.
ProbePrices == {None, Some(0), Some(25), Some(1599)}

\* A product (with or without a category, whose rules are open-ended, start on
\* the last day or end on the first) and a date, before calculate_points is called.
InitCalculator ==
    /\ InitDb /\ InitRequests
    /\ probe \in {[op |-> "args", point_earning_rules |-> rs, before |-> rs,
                   date |-> d, price |-> pr, has_category |-> hc,
                   rule |-> None, n |-> 0] :
                     rs \in RuleLists(ProbeMultipliers, {None, Some(MaxDay)},
                                      {None, Some(1)}),
                     d \in Days, pr \in ProbePrices, hc \in BOOLEAN}

\* PointCalculator.calculate_points(product, date) is called and returns.
call_calculate_points ==
    /\ probe.op = "args"
    /\ probe' = [probe EXCEPT
                   !.op = "returned",
                   !.n = calculate_points(
                            [price |-> probe.price,
                             category |-> IF probe.has_category
                                          THEN Some([id |-> Some(1),
                                                     point_earning_rules |->
                                                        probe.point_earning_rules])
                                          ELSE None],
                            probe.date)]
    /\ UNCHANGED <<dbVars, today, reqVars, loopVars>>

NextCalculator == call_calculate_points

SpecCalculator == InitCalculator /\ [][NextCalculator]_vars

\* ------------------------------------------------------------------------ C9

\* Positions of the probed rule list whose window contains the probed date:
\* start unset or <= date, end unset or >= date.
ActiveAt ==
    {i \in 1..Len(probe.point_earning_rules) :
        LET r == probe.point_earning_rules[i]
        IN /\ (r.start_date = None \/ r.start_date[1] <= probe.date)
           /\ (r.end_date = None \/ r.end_date[1] >= probe.date)}

FirstActive == CHOOSE i \in ActiveAt : \A j \in ActiveAt : i <= j

\* C9: get_active_rule returns the earliest rule of the list whose window
\* (both bounds inclusive, an unset bound unbounded) contains the date, returns
\* None exactly when no rule's window does, and leaves the list as it was.
C9_FirstActiveRule ==
    probe.op = "returned" =>
       /\ ActiveAt = {} <=> IsNone(probe.rule)
       /\ ActiveAt # {} => probe.rule = Some(probe.point_earning_rules[FirstActive])
       /\ probe.point_earning_rules = probe.before

\* Two rules overlap the date, the first one ending on that very day: it is returned.
C9_Witness ==
    /\ probe.op = "returned"
    /\ ActiveAt = {1, 2}
    /\ probe.point_earning_rules[1].end_date = Some(probe.date)
    /\ probe.point_earning_rules[2].start_date = Some(probe.date)
    /\ ~IsNone(probe.rule) /\ Val(probe.rule).id = 1

\* ----------------------------------------------------------------------- C10

\* calculate_points has nothing to multiply: no category, no active rule, the
\* active rule's multiplier unset or zero, or the price unset.
NothingToEarn ==
    \/ ~probe.has_category
    \/ ActiveAt = {}
    \/ probe.point_earning_rules[FirstActive].points_per_dollar \in {None, Some(0)}
    \/ probe.price = None

\* price * points_per_dollar in hundredths of a point.
ExactProduct ==
    probe.price[1] * probe.point_earning_rules[FirstActive].points_per_dollar[1]

C11_PointsNeverNegative ==
    (probe.op = "returned" /\ (probe.price = None \/ probe.price[1] >= 0))
       => probe.n >= 0

\* ----------------------------------------------------------------------- C12

\* Request p takes the step that stores a transaction.
StoresTransaction(p) == pc[p] = "create" /\ pc'[p] = "products"

\* C12: no step changes or removes a stored transaction; the table grows by at
\* most one row per step, it grows exactly in the step in which a request
\* stores the transaction of the point-earning product it is processing, and
\* the new row carries that request's account, that product and its points.
C12_AppendOnly ==
    [][/\ Len(transactions') >= Len(transactions)
       /\ Len(transactions') <= Len(transactions) + 1
       /\ \A k \in 1..Len(transactions) : transactions'[k] = transactions[k]
       /\ \A p \in Requests :
             StoresTransaction(p) =>
                /\ Len(transactions') = Len(transactions) + 1
                /\ transactions'[Len(transactions')] =
                      [loyalty_account_id |-> AccountOf(customer_id[p]),
                       product_id |-> product_ids[p][idx[p]],
                       points_earned |-> points_earned[p],
                       transaction_date |-> today]
                /\ points_earned[p] # 0
       /\ Len(transactions') = Len(transactions) + 1
             => \E p \in Requests : StoresTransaction(p)
      ]_vars

\* The row the first request stored is still as written after the second
\* request stored its own.
C12_Witness ==
    /\ Answered(1) /\ Answered(2)
    /\ created[1] = <<1>>
    /\ created[2] = <<2>>
    /\ transactions[1] = [loyalty_account_id |-> 1, product_id |-> 1,
                          points_earned |-> 2400, transaction_date |-> 1]
    /\ transactions[2].transaction_date = 2

\* ----------------------------------------------------------------------- C13

\* The PointEarningRules rows of a category, in stored order.
StoredRules(cid) ==
    SelectSeq(PointEarningRulesTable, LAMBDA r : r.category_id = cid)

\* The points product x earns on day d from the first stored rule of its
\* category that is active on d (0 when there is none).
StoredRulePoints(x, d) ==
    IF UnknownProduct(x) \/ CategoryUnresolvable(x) THEN 0
    ELSE calculate_points(
            [price |-> ProductsTable[x].price,
             category |-> Some([id |-> ProductsTable[x].category_id,
                                point_earning_rules |->
                                   StoredRules(Val(ProductsTable[x].category_id))])],
            d)

\* Positions of the input of p whose product earns at least one point from
\* the first stored rule active on the day the position was processed.
ShouldEarnAt(p) ==
    {i \in 1..Len(product_ids[p]) :
        i <= Len(calc_dates[p])
        /\ StoredRulePoints(product_ids[p][i], calc_dates[p][i]) >= 1}

\* C13: in a request answered 200, a product whose category has a stored rule
\* active on the day it was processed, giving at least one point for its price,
\* got a transaction with the points of the first such rule and is not in
\* point_earning_rules_missing.
C13_FirstStoredActiveRuleApplied ==
    \A p \in Requests :
       Succeeded(p) =>
          /\ \E K \in SUBSET ((1..Len(product_ids[p])) \ ShouldEarnAt(p)) :
                point_earning_rules_missing[p] = SubSeqAt(product_ids[p], K, 1)
          /\ \A i \in ShouldEarnAt(p) :
                \E k \in 1..Len(created[p]) :
                   /\ transactions[created[p][k]].product_id = product_ids[p][i]
                   /\ transactions[created[p][k]].points_earned =
                         StoredRulePoints(product_ids[p][i], calc_dates[p][i])

\* ----------------------------------------------------------------------- C14

\* The step appends to one of the three lists of request p.
Skips(p) ==
    \/ invalid_products'[p] # invalid_products[p]
    \/ products_missing_category'[p] # products_missing_category[p]
    \/ point_earning_rules_missing'[p] # point_earning_rules_missing[p]

\* Request p is about to process a product that resolves to zero points today.
AboutToComputeZero(p) ==
    /\ pc[p] = "products"
    /\ idx[p] <= Len(product_ids[p])
    /\ ZeroPointsOn(product_ids[p][idx[p]], today)

\* C14: a step that puts a product occurrence in one of the three lists stores
\* no transaction and changes neither the in-memory nor the persisted balance;
\* an occurrence whose computed points are 0 goes to
\* point_earning_rules_missing, whether no rule is active or the active rule
\* yields zero; and a request answered 200 created as many transactions as it
\* has occurrences outside the three lists.
C14_SkippedProductMutatesNothing ==
    [][\A p \in Requests :
          /\ Skips(p) =>
                /\ transactions' = transactions
                /\ points' = points
                /\ loyalty_account'[p] = loyalty_account[p]
                /\ total_points_earned'[p] = total_points_earned[p]
                /\ created'[p] = created[p]
                /\ idx'[p] = idx[p] + 1
                /\ pc'[p] = "products"
          /\ (AboutToComputeZero(p) /\ calc_dates'[p] # calc_dates[p]) =>
                /\ point_earning_rules_missing'[p] =
                      Append(point_earning_rules_missing[p], product_ids[p][idx[p]])
                /\ points_earned'[p] = 0
          /\ (pc'[p] = "done" /\ response'[p].status = 200) =>
                Len(created'[p]) =
                   Len(product_ids'[p]) - Len(invalid_products'[p])
                      - Len(products_missing_category'[p])
                      - Len(point_earning_rules_missing'[p])
      ]_vars

\* A successful request over product 3 (its active rule yields int(0.25 * 2) = 0)
\* and product 4 (its category has no rule): both are recorded, nothing is
\* stored and the balance written is the balance read.
C14_Witness ==
    \E p \in Requests :
       /\ Succeeded(p)
       /\ product_ids[p] = <<3, 4>>
       /\ calc_dates[p] = <<1, 1>>
       /\ get_active_rule(StoredRules(1), 1) # None
       /\ StoredRules(3) = <<>>
       /\ point_earning_rules_missing[p] = <<3, 4>>
       /\ created[p] = <<>>
       /\ transactions = <<>>
       /\ points[AccountOf(customer_id[p])] = InitialPoints(AccountOf(customer_id[p]))

\* ----------------------------------------------------------------------- C15

\* The input positions of request p that earned a transaction, in input order.
EarningPositions(p) ==
    SubSeqAt([i \in 1..Len(product_ids[p]) |-> i], EarningAt(p), 1)

\* C15: in a request answered 200, every transaction it created is dated with
\* the day on which the points of its product were calculated, and the rule
\* the repository attached yields the recorded points on the recorded date.
C15_DatedWithCalculationDay ==
    \A p \in Requests :
       Succeeded(p) =>
          \A k \in 1..Len(created[p]) :
             LET row == transactions[created[p][k]]
                 i == EarningPositions(p)[k]
             IN /\ row.transaction_date = calc_dates[p][i]
                /\ \E c \in CategoryRepository_get_by_id(
                               ProductsTable[row.product_id].category_id) :
                      calculate_points([price |-> ProductsTable[row.product_id].price,
                                        category |-> c],
                                       row.transaction_date) = row.points_earned

====
